---- MODULE Spec2Model ----
(***************************************************************************)
(* Model of the research dashboard (src/main.py): the tolerant loader      *)
(* load_file, the cached load_and_clean_data, and the script pass that     *)
(* Streamlit re-runs on every interaction (sidebar file selection, page     *)
(* dispatch, Teacher Profile lookup).                                      *)
(*                                                                         *)
(* Text is a sequence of one-character strings, so that upper-casing,      *)
(* substring search, sorting and number parsing are computed and not       *)
(* assumed.  A cell of a DataFrame is a record:                            *)
(*   [k |-> "str", s |-> text]    a string (object dtype)                  *)
(*   [k |-> "num", n |-> i]       a finite number                          *)
(*   [k |-> "inf", n |-> 1 | -1]  float +inf / -inf                        *)
(*   [k |-> "nan"]                the missing-value marker NaN             *)
(* Cell contents are drawn from CellSeq: plain, blank-padded, non-numeric, *)
(* empty, negative and "inf" strings, a parsed number and a missing cell.  *)
(*                                                                         *)
(* st.cache_data is Streamlit's: a call is keyed by its arguments (an      *)
(* uploaded file by name and content), a stored entry is never evicted,    *)
(* and a hit replays the stored return value and st.error element.         *)
(***************************************************************************)
EXTENDS Integers, Sequences, FiniteSets, TLC

VARIABLES
    source,        \* SpecLoader: the file object handed to load_file
    loaded,        \* SpecLoader: what load_file returned / raised
    uploaded,      \* st.file_uploader widget value: sequence of files
    page,          \* st.sidebar.radio "Go to" widget value
    selected_dept, \* Teacher Profile "Select Department" widget value
    selected_prof, \* Teacher Profile "Select Professor" widget value
    cache,         \* st.cache_data store of load_and_clean_data
    runs,          \* how often the body of load_and_clean_data ran, per key
    data,          \* module-level `data` of the current pass
    msgs,          \* st.info/warning/error/success elements of the pass
    invoked,       \* the call of load_and_clean_data in the current pass:
                   \* "no" (not called), "miss" (body ran), "hit" (replayed)
    view,          \* the page rendered in the current pass ("none" if none)
    prof_data      \* Teacher Profile: the row displayed

vars == <<source, loaded, uploaded, page, selected_dept, selected_prof,
          cache, runs, data, msgs, invoked, view, prof_data>>

None == [k |-> "None"]

(***************************************************************************)
(* Text helpers                                                            *)
(***************************************************************************)
Str(s) == [k |-> "str", s |-> s]
Num(i) == [k |-> "num", n |-> i]
Inf(sign) == [k |-> "inf", n |-> sign]
NaN == [k |-> "nan"]

\* str.upper() on the characters that occur in the modelled file names
Upper(ch) ==
    CASE ch = "e" -> "E"
      [] ch = "c" -> "C"
      [] ch = "s" -> "S"
      [] ch = "n" -> "N"
      [] ch = "o" -> "O"
      [] ch = "t" -> "T"
      [] OTHER -> ch

UpperText(s) == [i \in 1..Len(s) |-> Upper(s[i])]

\* Python's `sub in s` on strings
Contains(sub, s) ==
    \E i \in 0..(Len(s) - Len(sub)) :
        \A j \in 1..Len(sub) : s[i + j] = sub[j]

\* code-point order of the characters that occur in professor names
Alphabet == <<" ", ".", "A", "D", "R", "S", "a", "e", "n", "o", "s">>

Ord(ch) == CHOOSE i \in 1..Len(Alphabet) : Alphabet[i] = ch

\* Python's str < str (lexicographic by code point)
RECURSIVE TextLess(_, _)
TextLess(a, b) ==
    IF Len(b) = 0 THEN FALSE
    ELSE IF Len(a) = 0 THEN TRUE
    ELSE IF Head(a) = Head(b) THEN TextLess(Tail(a), Tail(b))
    ELSE Ord(Head(a)) < Ord(Head(b))

(***************************************************************************)
(* pd.to_numeric(..., errors='coerce') on one cell                         *)
(***************************************************************************)
IsDigit(ch) == ch \in {"0", "1", "2", "3", "4", "5", "6", "7", "8", "9"}

DigitVal(ch) ==
    CASE ch = "0" -> 0 [] ch = "1" -> 1 [] ch = "2" -> 2 [] ch = "3" -> 3
      [] ch = "4" -> 4 [] ch = "5" -> 5 [] ch = "6" -> 6 [] ch = "7" -> 7
      [] ch = "8" -> 8 [] ch = "9" -> 9

RECURSIVE StripLeft(_)
StripLeft(s) ==
    IF Len(s) > 0 /\ Head(s) = " " THEN StripLeft(Tail(s)) ELSE s

RECURSIVE StripRight(_)
StripRight(s) ==
    IF Len(s) > 0 /\ s[Len(s)] = " "
    THEN StripRight(SubSeq(s, 1, Len(s) - 1))
    ELSE s

Strip(s) == StripRight(StripLeft(s))

RECURSIVE DigitsValue(_, _)
DigitsValue(s, acc) ==
    IF Len(s) = 0 THEN acc
    ELSE DigitsValue(Tail(s), acc * 10 + DigitVal(Head(s)))

\* the unsigned part of a numeric literal
ParseUnsigned(s, sign) ==
    IF Len(s) > 0 /\ \A i \in 1..Len(s) : IsDigit(s[i])
    THEN Num(sign * DigitsValue(s, 0))
    ELSE IF s = <<"i", "n", "f">> THEN Inf(sign)
    ELSE NaN

\* a string cell: surrounding blanks are skipped, a sign is accepted, digits
\* give a number, "inf" gives an infinity, anything else is coerced to NaN
ParseText(s) ==
    LET t == Strip(s) IN
    IF Len(t) = 0 THEN NaN
    ELSE IF Head(t) = "-" THEN ParseUnsigned(Tail(t), -1)
    ELSE IF Head(t) = "+" THEN ParseUnsigned(Tail(t), 1)
    ELSE ParseUnsigned(t, 1)

\* a coercion that gives up on every cell that is not a string
to_numeric_text_only(cell) ==
    IF cell.k = "str" THEN ParseText(cell.s) ELSE NaN

to_numeric(cell) ==
    IF cell.k = "str" THEN ParseText(cell.s) ELSE cell

\* the fill step left out
fillna_skipped(cell) == cell

\* Series.fillna(0) on one cell
fillna(cell) == IF cell.k = "nan" THEN Num(0) ELSE cell

(***************************************************************************)
(* load_file                                                               *)
(***************************************************************************)
FileSize == 2

Strategies == 1..5

StrategyName ==
    <<"csv utf-8", "csv latin1", "csv python sep=None utf-8",
      "csv python sep=None latin1", "excel">>

\* Rewind without the seek(0)
Rewind_missing(src, pos) == pos

\* `if hasattr(source, 'seek'): source.seek(0)`
Rewind(src, pos) == IF src.seekable THEN 0 ELSE pos

\* One pd.read_csv / pd.read_excel call: the parser reads from the current
\* position.  From position 0 the outcome is the file's outcome under that
\* strategy; from any later position the header is gone and the parse does
\* not give the file's table.
ReadAt(src, k, pos) ==
    IF pos = 0 THEN src.parse[k]
    ELSE [ok |-> FALSE, err |-> "EmptyDataError"]

\* where the attempt leaves the read position
PosAfter(src, out) ==
    IF ~src.seekable THEN 0
    ELSE IF out.ok THEN FileSize
    ELSE src.errpos

\* read_with_options whose fifth block ends in `except: pass` like the others
RECURSIVE read_with_options_swallow(_, _, _, _)
read_with_options_swallow(src, k, pos, log) ==
    LET start == Rewind(src, pos)
        out == ReadAt(src, k, start)
        log2 == Append(log, [strategy |-> k, start |-> start, ok |-> out.ok])
        endpos == PosAfter(src, out)
    IN  IF out.ok
        THEN [ok |-> TRUE, df |-> out.df, attempts |-> log2, pos |-> endpos]
        ELSE IF k < 5
        THEN read_with_options_swallow(src, k + 1, endpos, log2)
        ELSE [ok |-> TRUE, df |-> None, attempts |-> log2, pos |-> endpos]

\* the five try-blocks of read_with_options, from strategy k on
RECURSIVE read_with_options(_, _, _, _)
read_with_options(src, k, pos, log) ==
    LET start == Rewind(src, pos)
        out == ReadAt(src, k, start)
        log2 == Append(log, [strategy |-> k, start |-> start, ok |-> out.ok])
        endpos == PosAfter(src, out)
    IN  IF out.ok
        THEN [ok |-> TRUE, df |-> out.df, attempts |-> log2, pos |-> endpos]
        ELSE IF k < 5
        THEN read_with_options(src, k + 1, endpos, log2)
        ELSE [ok |-> FALSE,
              exc |-> [type |-> "ValueError",
                       words |-> <<"All parsing attempts failed. Last error:",
                                   out.err>>],
              attempts |-> log2, pos |-> endpos]

load_file(file_obj) == read_with_options(file_obj, 1, file_obj.pos, <<>>)

(***************************************************************************)
(* DataFrame operations used by load_and_clean_data                        *)
(* A DataFrame is [cols |-> labels, rows |-> rows], each row aligned with   *)
(* cols.  Column labels are whole strings (they are only compared).        *)
(***************************************************************************)
\* positions of the columns carrying `label`, ascending
Positions(cols, label) ==
    SelectSeq([i \in 1..Len(cols) |-> i], LAMBDA i : cols[i] = label)

\* an assignment that leaves an existing column alone
AssignColumn_keep(df, label, value) ==
    IF \E i \in 1..Len(df.cols) : df.cols[i] = label
    THEN df
    ELSE [cols |-> Append(df.cols, label),
          rows |-> [r \in 1..Len(df.rows) |-> Append(df.rows[r], value)]]

\* df[label] = value
AssignColumn(df, label, value) ==
    IF \E i \in 1..Len(df.cols) : df.cols[i] = label
    THEN [df EXCEPT !.rows =
            [r \in 1..Len(df.rows) |->
                [i \in 1..Len(df.cols) |->
                    IF df.cols[i] = label THEN value ELSE df.rows[r][i]]]]
    ELSE [cols |-> Append(df.cols, label),
          rows |-> [r \in 1..Len(df.rows) |-> Append(df.rows[r], value)]]

\* df.rename(columns=map): labels in the map are replaced, others kept
Rename(df, map) ==
    [df EXCEPT !.cols =
        [i \in 1..Len(df.cols) |->
            IF df.cols[i] \in DOMAIN map THEN map[df.cols[i]] ELSE df.cols[i]]]

RECURSIVE FlatPositions(_, _)
FlatPositions(cols, labels) ==
    IF Len(labels) = 0 THEN <<>>
    ELSE Positions(cols, Head(labels)) \o FlatPositions(cols, Tail(labels))

\* a selection that silently skips the labels that are not columns
SelectColumns_lenient(df, labels) ==
    LET idx == FlatPositions(df.cols, labels)
    IN  [ok |-> TRUE,
         df |-> [cols |-> [i \in 1..Len(idx) |-> df.cols[idx[i]]],
                 rows |-> [r \in 1..Len(df.rows) |->
                             [i \in 1..Len(idx) |-> df.rows[r][idx[i]]]]]]

\* df[labels]: KeyError listing the labels that are not columns, otherwise the
\* columns in the order asked for (a label carried twice is returned twice)
SelectColumns(df, labels) ==
    LET missing == SelectSeq(labels, LAMBDA l : Len(Positions(df.cols, l)) = 0)
        idx == FlatPositions(df.cols, labels)
    IN  IF Len(missing) > 0
        THEN [ok |-> FALSE,
              exc |-> [type |-> "KeyError",
                       words |-> Append(missing, "not in index")]]
        ELSE [ok |-> TRUE,
              df |-> [cols |-> [i \in 1..Len(idx) |-> df.cols[idx[i]]],
                      rows |-> [r \in 1..Len(df.rows) |->
                                  [i \in 1..Len(idx) |-> df.rows[r][idx[i]]]]]]

\* a concatenation with the frames in the wrong order
Concat_swapped(a, b) ==
    IF a.cols = b.cols
    THEN [ok |-> TRUE, df |-> [cols |-> a.cols, rows |-> b.rows \o a.rows]]
    ELSE [ok |-> FALSE,
          exc |-> [type |-> "InvalidIndexError",
                   words |-> <<"Reindexing only valid with uniquely valued Index objects">>]]

\* pd.concat([a, b], ignore_index=True).  Both frames come out of
\* SelectColumns with the same label list, so their column lists differ only
\* when one of them carries a label twice, and then the frames cannot be
\* aligned (InvalidIndexError).
Concat(a, b) ==
    IF a.cols = b.cols
    THEN [ok |-> TRUE, df |-> [cols |-> a.cols, rows |-> a.rows \o b.rows]]
    ELSE [ok |-> FALSE,
          exc |-> [type |-> "InvalidIndexError",
                   words |-> <<"Reindexing only valid with uniquely valued Index objects">>]]

\* apply a cell step ("to_numeric" or "fillna") to every cell of the columns
\* named in labels
MapColumns(df, labels, step) ==
    LET f(cell) == IF step = "to_numeric" THEN to_numeric(cell) ELSE fillna(cell)
    IN  [df EXCEPT !.rows =
            [r \in 1..Len(df.rows) |->
                [i \in 1..Len(df.cols) |->
                    IF \E j \in 1..Len(labels) : labels[j] = df.cols[i]
                    THEN f(df.rows[r][i]) ELSE df.rows[r][i]]]]

(***************************************************************************)
(* load_and_clean_data                                                     *)
(***************************************************************************)
ECE == <<"E", "C", "E">>
CSE == <<"C", "S", "E">>

ece_rename_map ==
    ("Name of Professor" :> "Name")
    @@ ("Number of Journal Publications" :> "Journal Publications")
    @@ ("Number of Conference Publications" :> "Conference Publications")
    @@ ("Number of Publications (Total)" :> "Total Publications")
    @@ ("Books/Chapters Count" :> "Books/Chapters")
    @@ ("Patents Count" :> "Patents")
    @@ ("Projects Count" :> "Projects")
    @@ ("Citations Count" :> "Citations")
    @@ ("H Index Count" :> "H Index")

cse_rename_map ==
    ("Name of professor" :> "Name")
    @@ ("Number of Journal Publications" :> "Journal Publications")
    @@ ("Number of Conference Publications" :> "Conference Publications")
    @@ ("Number of Publications (Total)" :> "Total Publications")
    @@ ("Books/Chapters (Count)" :> "Books/Chapters")
    @@ ("Patents (Count)" :> "Patents")
    @@ ("Projects (Count)" :> "Projects")
    @@ ("Citations" :> "Citations")
    @@ ("H index" :> "H Index")

common_columns ==
    <<"Name", "Designation", "Journal Publications", "Conference Publications",
      "Total Publications", "Books/Chapters", "Patents", "Projects",
      "Citations", "H Index", "Department">>

numeric_cols ==
    <<"Journal Publications", "Conference Publications", "Total Publications",
      "Books/Chapters", "Patents", "Projects", "Citations", "H Index">>

\* `for col in numeric_cols: combined_df[col] = pd.to_numeric(combined_df[col],
\* errors='coerce')`: a label carried twice selects a frame, not a Series, and
\* pd.to_numeric raises TypeError
CoerceNumeric(df) ==
    IF \E j \in 1..Len(numeric_cols) : Len(Positions(df.cols, numeric_cols[j])) > 1
    THEN [ok |-> FALSE,
          exc |-> [type |-> "TypeError",
                   words |-> <<"arg must be a list, tuple, 1-d array, or Series">>]]
    ELSE [ok |-> TRUE, df |-> MapColumns(df, numeric_cols, "to_numeric")]

\* combined_df[numeric_cols] = combined_df[numeric_cols].fillna(0)
FillNumeric(df) == MapColumns(df, numeric_cols, "fillna")

\* lines 133-139 on a combined frame
CleanNumeric(df) ==
    LET c == CoerceNumeric(df) IN
    IF c.ok THEN [ok |-> TRUE, df |-> FillNumeric(c.df)] ELSE c

\* `except Exception as e: st.error(f"Error processing files: {e}"); return None`
Except(exc) ==
    [value |-> None,
     elements |-> <<[kind |-> "error",
                     words |-> <<"Error processing files:">> \o exc.words]>>]

\* lines 87-141, once both files are loaded
MergeAndClean(raw_ece, raw_cse) ==
    LET df_ece == Rename(AssignColumn(raw_ece, "Department", Str(ECE)), ece_rename_map)
        df_cse == Rename(AssignColumn(raw_cse, "Department", Str(CSE)), cse_rename_map)
        sel_ece == SelectColumns(df_ece, common_columns)
        sel_cse == SelectColumns(df_cse, common_columns)
    IN  IF ~sel_ece.ok THEN Except(sel_ece.exc)
        ELSE IF ~sel_cse.ok THEN Except(sel_cse.exc)
        ELSE LET combined == Concat(sel_ece.df, sel_cse.df) IN
             IF ~combined.ok THEN Except(combined.exc)
             ELSE LET cleaned == CleanNumeric(combined.df) IN
                  IF ~cleaned.ok THEN Except(cleaned.exc)
                  ELSE [value |-> cleaned.df, elements |-> <<>>]

\* the body of load_and_clean_data (what runs on a cache miss)
load_and_clean_body(ece_file, cse_file) ==
    LET l_ece == load_file(ece_file) IN
    IF ~l_ece.ok THEN Except(l_ece.exc)
    ELSE LET l_cse == load_file(cse_file) IN
         IF ~l_cse.ok THEN Except(l_cse.exc)
         ELSE MergeAndClean(l_ece.df, l_cse.df)

(***************************************************************************)
(* st.cache_data around load_and_clean_data                                *)
(***************************************************************************)
MaxRuns == 2

\* a key that looks at the first argument only
CacheKey_first_only(ece_file, cse_file) == <<ece_file>>

\* st.cache_data hashes the arguments: an uploaded file by its name and bytes
CacheKey(ece_file, cse_file) == <<ece_file, cse_file>>

\* a call of the decorated function: a hit replays the stored return value and
\* the stored st.error element, a miss runs the body and stores both
load_and_clean_data(ece_file, cse_file, store, count) ==
    LET key == CacheKey(ece_file, cse_file) IN
    IF key \in DOMAIN store
    THEN [result |-> store[key], store |-> store, count |-> count, hit |-> TRUE]
    ELSE LET result == load_and_clean_body(ece_file, cse_file)
             real == <<ece_file, cse_file>>
             n == IF real \in DOMAIN count THEN count[real] ELSE 0
         IN  [result |-> result,
              store |-> (key :> result) @@ store,
              count |-> (real :> (n + 1)) @@ count,
              hit |-> FALSE]

(***************************************************************************)
(* The script pass: sidebar (lines 153-183) and page dispatch (185-360)    *)
(***************************************************************************)
\* the loop body with `if` in place of `elif`
TagFile_both(f, acc) ==
    LET fname == UpperText(f.name)
        a1 == IF Contains(ECE, fname) THEN [acc EXCEPT !.file_ece = f] ELSE acc
    IN  IF Contains(CSE, fname) THEN [a1 EXCEPT !.file_cse = f] ELSE a1

\* one iteration of `for f in uploaded_files`
TagFile(f, acc) ==
    LET fname == UpperText(f.name) IN
    IF Contains(ECE, fname) THEN [acc EXCEPT !.file_ece = f]
    ELSE IF Contains(CSE, fname) THEN [acc EXCEPT !.file_cse = f]
    ELSE acc

RECURSIVE TagFiles(_, _)
TagFiles(files, acc) ==
    IF Len(files) = 0 THEN acc
    ELSE TagFiles(Tail(files), TagFile(Head(files), acc))

Element(kind, text) == [kind |-> kind, words |-> <<text>>]

\* `with st.sidebar:` block
Sidebar(files, store, count) ==
    LET tags == TagFiles(files, [file_ece |-> None, file_cse |-> None])
        call == load_and_clean_data(tags.file_ece, tags.file_cse, store, count)
        Quiet(element) ==
            [data |-> None, msgs |-> <<element>>, store |-> store,
             count |-> count, invoked |-> "no", tags |-> tags]
    IN  IF Len(files) > 0
        THEN IF tags.file_ece # None /\ tags.file_cse # None
             THEN [data |-> call.result.value,
                   msgs |-> <<Element("success", "Both files identified!")>>
                            \o call.result.elements,
                   store |-> call.store, count |-> call.count,
                   invoked |-> IF call.hit THEN "hit" ELSE "miss", tags |-> tags]
             ELSE IF Len(files) < 2
             THEN Quiet(Element("warning",
                      "Please upload TWO files (one for ECE, one for CSE)."))
             ELSE Quiet(Element("error",
                      "Could not distinguish files. Ensure filenames contain 'ECE' and 'CSE'."))
        ELSE Quiet(Element("info", "Waiting for upload..."))

Pages == {"Overview", "Department Comparison", "Faculty Rankings", "Teacher Profile"}

\* the cell of row `row` under the first column labelled `label`
Cell(df, row, label) == row[Positions(df.cols, label)[1]]

\* filtered_data[filtered_data[label] == value]
RowsWhere(df, label, value) ==
    SelectSeq(df.rows, LAMBDA row : Cell(df, row, label) = value)

\* Series.unique(): first occurrences, in order
RECURSIVE Unique(_, _)
Unique(seq, seen) ==
    IF Len(seq) = 0 THEN seen
    ELSE IF \E i \in 1..Len(seen) : seen[i] = Head(seq)
    THEN Unique(Tail(seq), seen)
    ELSE Unique(Tail(seq), Append(seen, Head(seq)))

RECURSIVE Insert(_, _)
Insert(x, sorted) ==
    IF Len(sorted) = 0 THEN <<x>>
    ELSE IF TextLess(x.s, Head(sorted).s) THEN <<x>> \o sorted
    ELSE <<Head(sorted)>> \o Insert(x, Tail(sorted))

\* sorted(names)
RECURSIVE Sorted(_)
Sorted(seq) ==
    IF Len(seq) = 0 THEN <<>> ELSE Insert(Head(seq), Sorted(Tail(seq)))

\* the options of the "Select Professor" box (lines 310-311)
ProfOptions(df, dept) ==
    LET members == RowsWhere(df, "Department", Str(dept))
    IN  Sorted(Unique([i \in 1..Len(members) |-> Cell(df, members[i], "Name")], <<>>))

\* st.selectbox: the stored choice while it is still an option, else the first
\* option, else None
SelectBox(options, choice) ==
    IF \E i \in 1..Len(options) : options[i] = choice THEN choice
    ELSE IF Len(options) > 0 THEN options[1]
    ELSE None

\* `filtered_data[filtered_data['Name'] == selected_prof].iloc[0]` (line 314)
ProfLookup(df, dept, prof) ==
    LET found == RowsWhere(df, "Name", prof)
    IN  IF Len(found) = 0 THEN [k |-> "IndexError"]
        ELSE [k |-> "row", row |-> found[1],
              Department |-> Cell(df, found[1], "Department")]

\* lines 185-360
MainView(df, pg, dept, prof) ==
    IF df # None
    THEN IF pg = "Teacher Profile"
         THEN LET pick == SelectBox(ProfOptions(df, dept), prof) IN
              [view |-> pg, page |-> pg, msgs |-> <<>>,
               selected_dept |-> dept, selected_prof |-> pick,
               prof_data |-> ProfLookup(df, dept, pick)]
         ELSE [view |-> pg, page |-> pg, msgs |-> <<>>,
               selected_dept |-> ECE, selected_prof |-> None,
               prof_data |-> None]
    ELSE [view |-> "none", page |-> "Overview",
          msgs |-> <<Element("info",
              "Waiting for data... Please upload your CSV files using the sidebar.")>>,
          selected_dept |-> ECE, selected_prof |-> None, prof_data |-> None]

\* one run of the script with the given widget values
RunScript(files, pg, dept, prof) ==
    \E side \in {Sidebar(files, cache, runs)} :
    \E main \in {MainView(side.data, pg, dept, prof)} :
        /\ \A key \in DOMAIN side.count : side.count[key] <= MaxRuns
        /\ uploaded' = files
        /\ cache' = side.store
        /\ runs' = side.count
        /\ data' = side.data
        /\ invoked' = side.invoked
        /\ msgs' = side.msgs \o main.msgs
        /\ view' = main.view
        /\ page' = main.page
        /\ selected_dept' = main.selected_dept
        /\ selected_prof' = main.selected_prof
        /\ prof_data' = main.prof_data

(***************************************************************************)
(* Inputs                                                                  *)
(***************************************************************************)
ece_headers ==
    <<"Name of Professor", "Designation", "Number of Journal Publications",
      "Number of Conference Publications", "Number of Publications (Total)",
      "Books/Chapters Count", "Patents Count", "Projects Count",
      "Citations Count", "H Index Count">>

cse_headers ==
    <<"Name of professor", "Designation", "Number of Journal Publications",
      "Number of Conference Publications", "Number of Publications (Total)",
      "Books/Chapters (Count)", "Patents (Count)", "Projects (Count)",
      "Citations", "H index">>

canonical_headers ==
    <<"Name", "Designation", "Journal Publications", "Conference Publications",
      "Total Publications", "Books/Chapters", "Patents", "Projects",
      "Citations", "H Index">>

Rao == <<"A", ".", " ", "R", "a", "o">>
Sen == <<"S", "e", "n">>
Das == <<"D", "a", "s">>

\* the cell contents a metric column is fed with
CellSeq ==
    <<Str(<<"5">>), Str(<<" ", "1", "0", " ">>), Str(<<"N", "/", "A">>),
      Str(<<>>), Str(<<"-", "3">>), Str(<<"i", "n", "f">>), Num(4), NaN>>

\* a source row: its eight metric cells run through CellSeq from `base` on, so
\* that every kind of cell meets every metric column
SourceRow(name, base) ==
    <<Str(name), Str(<<"P", "r", "o", "f">>)>>
    \o [j \in 1..Len(numeric_cols) |-> CellSeq[((base + j - 1) % Len(CellSeq)) + 1]]

DropColumn(df, i) ==
    LET Drop(seq) == SubSeq(seq, 1, i - 1) \o SubSeq(seq, i + 1, Len(seq))
    IN  [cols |-> Drop(df.cols), rows |-> [r \in 1..Len(df.rows) |-> Drop(df.rows[r])]]

\* a raw table as a department's export pipeline may produce it
SourceTable(headers, variant, rows) ==
    LET plain == [cols |-> headers, rows |-> rows] IN
    CASE variant = "source" -> plain
      [] variant = "canonical" -> [plain EXCEPT !.cols = canonical_headers]
      [] variant = "with department" ->
            AssignColumn(plain, "Department", Str(<<"M", "E">>))
      [] variant = "with extra" -> AssignColumn(plain, "Email", Str(<<"x">>))
      [] variant = "name twice" -> AssignColumn(plain, "Name", Str(Das))
      [] variant = "metric twice" -> AssignColumn(plain, "Patents", Num(1))
      [] variant = "no patents" -> DropColumn(plain, 7)

\* how a file answers the five strategies when read from its start
ParseAs(format, df) ==
    [k \in Strategies |->
        CASE format = "csv" ->
                IF k <= 4 THEN [ok |-> TRUE, df |-> df]
                ELSE [ok |-> FALSE, err |-> "Excel file format cannot be determined"]
          [] format = "ragged csv" ->
                IF k \in {3, 4} THEN [ok |-> TRUE, df |-> df]
                ELSE IF k <= 2 THEN [ok |-> FALSE, err |-> "Error tokenizing data"]
                ELSE [ok |-> FALSE, err |-> "Excel file format cannot be determined"]
          [] format = "xlsx" ->
                IF k = 5 THEN [ok |-> TRUE, df |-> df]
                ELSE [ok |-> FALSE, err |-> "codec can't decode"]
          [] format = "garbage" ->
                IF k <= 4 THEN [ok |-> FALSE, err |-> "Error tokenizing data"]
                ELSE [ok |-> FALSE, err |-> "File is not a zip file"]]

\* an UploadedFile: a fresh seekable object at position 0 in every pass
UploadedFile(name, format, df) ==
    [name |-> name, seekable |-> TRUE, pos |-> 0, errpos |-> 1,
     parse |-> ParseAs(format, df)]

(***************************************************************************)
(* Spec: a dashboard session over a small catalogue of uploadable files    *)
(***************************************************************************)
MaxFiles == 2

EceTable == [cols |-> ece_headers, rows |-> <<SourceRow(Rao, 0), SourceRow(Sen, 2)>>]
CseTable == [cols |-> cse_headers, rows |-> <<SourceRow(Rao, 6), SourceRow(Das, 3)>>]
EceEmpty == [cols |-> ece_headers, rows |-> <<>>]

Catalogue ==
    {UploadedFile(<<"e", "c", "e", ".", "c", "s", "v">>, "csv", EceTable),
     UploadedFile(<<"C", "S", "E", ".", "c", "s", "v">>, "ragged csv", CseTable),
     UploadedFile(<<"E", "c", "e", "2", ".", "x", "l", "s", "x">>, "xlsx", EceEmpty),
     UploadedFile(<<"c", "s", "e", "_", "e", "c", "e">>, "csv",
                  SourceTable(ece_headers, "no patents", <<SourceRow(Sen, 1)>>)),
     UploadedFile(<<"n", "o", "t", "e", "s">>, "csv", EceTable),
     UploadedFile(<<"c", "s", "e", "_", "b", "a", "d">>, "garbage", EceEmpty)}

LoaderIdle == source = None /\ loaded = None

Init ==
    /\ LoaderIdle
    /\ uploaded = <<>>
    /\ page = "Overview"
    /\ selected_dept = ECE
    /\ selected_prof = None
    /\ cache = <<>>
    /\ runs = <<>>
    /\ data = None
    /\ msgs = <<Element("info", "Waiting for upload..."),
                Element("info",
                  "Waiting for data... Please upload your CSV files using the sidebar.")>>
    /\ invoked = "no"
    /\ view = "none"
    /\ prof_data = None

\* the user adds a file to the uploader (it holds up to MaxFiles distinct files)
AddFile(f) ==
    /\ Len(uploaded) < MaxFiles
    /\ \A i \in 1..Len(uploaded) : uploaded[i] # f
    /\ RunScript(Append(uploaded, f), page, selected_dept, selected_prof)
    /\ UNCHANGED <<source, loaded>>

\* the user removes the i-th file from the uploader
RemoveFile(i) ==
    /\ i \in 1..Len(uploaded)
    /\ RunScript(SubSeq(uploaded, 1, i - 1) \o SubSeq(uploaded, i + 1, Len(uploaded)),
                 page, selected_dept, selected_prof)
    /\ UNCHANGED <<source, loaded>>

\* the script runs again with every widget unchanged
Rerun ==
    /\ RunScript(uploaded, page, selected_dept, selected_prof)
    /\ UNCHANGED <<source, loaded>>

\* the "Go to" radio exists only while data is not None
GoTo(pg) ==
    /\ data # None
    /\ pg # page
    /\ RunScript(uploaded, pg, selected_dept, selected_prof)
    /\ UNCHANGED <<source, loaded>>

SelectDepartment(dept) ==
    /\ view = "Teacher Profile"
    /\ dept # selected_dept
    /\ RunScript(uploaded, page, dept, selected_prof)
    /\ UNCHANGED <<source, loaded>>

SelectProfessor(prof) ==
    /\ view = "Teacher Profile"
    /\ prof # selected_prof
    /\ \E i \in 1..Len(ProfOptions(data, selected_dept)) :
          ProfOptions(data, selected_dept)[i] = prof
    /\ RunScript(uploaded, page, selected_dept, prof)
    /\ UNCHANGED <<source, loaded>>

Next ==
    \/ \E f \in Catalogue : AddFile(f)
    \/ \E i \in 1..MaxFiles : RemoveFile(i)
    \/ Rerun
    \/ \E pg \in Pages : GoTo(pg)
    \/ \E dept \in {ECE, CSE} : SelectDepartment(dept)
    \/ \E prof \in {Str(Rao), Str(Sen), Str(Das)} : SelectProfessor(prof)

Spec == Init /\ [][Next]_vars

(***************************************************************************)
(* SpecLoader: load_file on every answer pattern of the five strategies    *)
(***************************************************************************)
\* what strategy k returns when it succeeds: a table only it produces
Marker(k) == [cols |-> <<StrategyName[k]>>, rows |-> <<>>]

\* the failure of strategy k
Failure(k) ==
    <<"'utf-8' codec can't decode", "Error tokenizing data",
      "Could not determine delimiter", "Expected 1 fields, saw 2",
      "File is not a zip file">>[k]

Sources ==
    {[name |-> <<"f">>, seekable |-> sk, pos |-> p, errpos |-> e,
      parse |-> [k \in Strategies |->
                    IF k \in good THEN [ok |-> TRUE, df |-> Marker(k)]
                    ELSE [ok |-> FALSE, err |-> Failure(k)]]] :
        good \in SUBSET Strategies, sk \in BOOLEAN,
        p \in 0..FileSize, e \in 0..FileSize}

AppIdle ==
    /\ uploaded = <<>> /\ page = "Overview" /\ selected_dept = ECE
    /\ selected_prof = None /\ cache = <<>> /\ runs = <<>> /\ data = None
    /\ msgs = <<>> /\ invoked = "no" /\ view = "none" /\ prof_data = None

InitLoader ==
    /\ source \in {src \in Sources : ~src.seekable => src.pos = 0 /\ src.errpos = 0}
    /\ loaded = None
    /\ AppIdle

LoadFile ==
    /\ loaded' = load_file(source)
    /\ source' = [source EXCEPT !.pos = loaded'.pos]
    /\ UNCHANGED <<uploaded, page, selected_dept, selected_prof, cache, runs,
                   data, msgs, invoked, view, prof_data>>

NextLoader == LoadFile

SpecLoader == InitLoader /\ [][NextLoader]_vars

(***************************************************************************)
(* SpecClean: load_and_clean_data on every bounded pair of source tables   *)
(***************************************************************************)
MaxRows == 2

RowSet ==
    {SourceRow(Rao, base) : base \in 0..(Len(CellSeq) - 1)}
    \cup {SourceRow(Sen, 0)}

RowsUpTo(n) == UNION {[1..k -> RowSet] : k \in 0..n}

Variants ==
    {"source", "canonical", "with department", "with extra", "name twice",
     "metric twice", "no patents"}

VariantPairs ==
    {<<v, "source">> : v \in Variants} \cup {<<"source", v>> : v \in Variants}
    \cup {<<v, v>> : v \in {"name twice", "metric twice"}}

InitClean ==
    /\ LoaderIdle
    /\ \E vp \in VariantPairs, re \in RowsUpTo(MaxRows) :
         \E rc \in RowsUpTo(MaxRows - Len(re)) :
            uploaded = <<UploadedFile(<<"e", "c", "e">>, "csv",
                                      SourceTable(ece_headers, vp[1], re)),
                         UploadedFile(<<"C", "S", "E">>, "csv",
                                      SourceTable(cse_headers, vp[2], rc))>>
    /\ page = "Overview" /\ selected_dept = ECE /\ selected_prof = None
    /\ cache = <<>> /\ runs = <<>> /\ data = None /\ msgs = <<>>
    /\ invoked = "no" /\ view = "none" /\ prof_data = None

\* the pass that calls load_and_clean_data with the pair
CleanCall == invoked = "no" /\ Rerun

NextClean == CleanCall

SpecClean == InitClean /\ [][NextClean]_vars

(***************************************************************************)
(* Properties of load_file (checked under SpecLoader)                      *)
(***************************************************************************)
\* the first strategy the file answers, 0 if none
FirstGood(src) ==
    IF \E k \in Strategies : src.parse[k].ok
    THEN CHOOSE k \in Strategies :
            src.parse[k].ok /\ \A j \in 1..(k - 1) : ~src.parse[j].ok
    ELSE 0

\* C1: load_file attempts the strategies in the order 1..5, each attempt
\* starting at position 0 and made only after all earlier ones failed, and it
\* returns the table of the first strategy the file answers, attempting none
\* after it.
C1_StrategyOrder ==
    loaded # None =>
        LET a == loaded.attempts IN
        /\ Len(a) \in 1..5
        /\ \A i \in 1..Len(a) :
              /\ a[i].strategy = i
              /\ a[i].start = 0
              /\ i < Len(a) => ~a[i].ok /\ ~source.parse[i].ok
        /\ FirstGood(source) # 0 =>
              /\ loaded.ok
              /\ Len(a) = FirstGood(source)
              /\ loaded.df = Marker(FirstGood(source))
        /\ FirstGood(source) = 0 => Len(a) = 5

\* a seekable file that only strategies 3, 4 and 5 can parse, whose failed
\* attempts leave the position past the start, was loaded via strategy 3
C1_Witness ==
    /\ loaded # None
    /\ source.seekable /\ source.errpos > 0
    /\ FirstGood(source) = 3 /\ source.parse[4].ok /\ source.parse[5].ok
    /\ loaded.ok /\ Len(loaded.attempts) = 3 /\ loaded.df = Marker(3)

\* C2: load_file fails exactly when all five strategies fail, and the error
\* then carries the failure of the spreadsheet parse and of no other strategy.
C2_FailsIffAllFail ==
    loaded # None =>
        /\ ~loaded.ok <=> (\A k \in Strategies : ~source.parse[k].ok)
        /\ loaded.ok => loaded.df # None
        /\ ~loaded.ok =>
              /\ loaded.exc.type = "ValueError"
              /\ loaded.exc.words[Len(loaded.exc.words)] = Failure(5)
              /\ \A k \in 1..4 : \A i \in 1..Len(loaded.exc.words) :
                    loaded.exc.words[i] # Failure(k)

\* a file no strategy parses was loaded, starting from a position past 0
C2_Witness ==
    /\ loaded # None /\ ~loaded.ok
    /\ source.seekable /\ source.errpos > 0
    /\ \A k \in Strategies : ~source.parse[k].ok

(***************************************************************************)
(* Properties of the script pass (checked under Spec)                      *)
(***************************************************************************)
\* case-insensitive substring match of a department name in a file name
NameHas(f, dept) ==
    \E i \in 0..(Len(f.name) - Len(dept)) :
        \A j \in 1..Len(dept) : Upper(f.name[i + j]) = dept[j]

\* the uploaded set yields a file for each department: a name with ECE in it
\* is ECE's, a name with CSE but not ECE in it is CSE's
YieldsBoth ==
    /\ \E i \in 1..Len(uploaded) : NameHas(uploaded[i], ECE)
    /\ \E i \in 1..Len(uploaded) :
          NameHas(uploaded[i], CSE) /\ ~NameHas(uploaded[i], ECE)

Directive ==
    Len(msgs) > 0 /\ msgs[1].kind \in {"info", "warning", "error"}

\* C3: load_and_clean_data is invoked, and a merged table exists, only when
\* the uploaded set yields an ECE file and a CSE file; with no file, with one
\* file whatever its name, or with files that do not yield both, a directive
\* is shown, nothing is computed, data is None and no view is rendered.
C3_InputSelection ==
    /\ invoked # "no" => YieldsBoth /\ Len(uploaded) >= 2
    /\ data # None => invoked # "no"
    /\ (Len(uploaded) <= 1 \/ ~YieldsBoth) =>
          /\ Directive
          /\ invoked = "no"
          /\ data = None
          /\ view = "none"

\* a single file whose name carries both department names is uploaded
C3_Witness ==
    /\ Len(uploaded) = 1
    /\ NameHas(uploaded[1], ECE) /\ NameHas(uploaded[1], CSE)
    /\ msgs[1].kind = "warning"
    /\ data = None /\ view = "none"

\* the two files load_and_clean_data is called with in the current pass
Tagged == TagFiles(uploaded, [file_ece |-> None, file_cse |-> None])

\* C7: the body of load_and_clean_data runs at most once per pair of files,
\* and whether replayed or computed, the result of a call is the value the
\* body gives for the pair it was called with.
C7_CacheCorrect ==
    /\ \A key \in DOMAIN runs : runs[key] <= 1
    /\ invoked # "no" =>
          /\ data = load_and_clean_body(Tagged.file_ece, Tagged.file_cse).value
          /\ <<Tagged.file_ece, Tagged.file_cse>> \in DOMAIN runs

\* a pair is served from the cache while another pair with the same ECE file
\* is cached too
C7_Witness ==
    /\ invoked = "hit"
    /\ data # None
    /\ \E key \in DOMAIN runs :
          key[1] = Tagged.file_ece /\ key[2] # Tagged.file_cse

\* C10: on the Teacher Profile view, for every department D and professor
\* offered for D, a row is found and it belongs to department D.
C10_ProfileOfDepartment ==
    (view = "Teacher Profile" /\ selected_prof # None) =>
        /\ prof_data.k = "row"
        /\ prof_data.Department = Str(selected_dept)

(***************************************************************************)
(* Properties of load_and_clean_data (checked under SpecClean)             *)
(***************************************************************************)
RawEce == uploaded[1].parse[1].df
RawCse == uploaded[2].parse[1].df

\* the canonical label a source header ends up with
Canonical(header, map) == IF header \in DOMAIN map THEN map[header] ELSE header

\* the canonical columns, other than the tag, that no source header gives
MissingFields(raw, map) ==
    SelectSeq(SubSeq(common_columns, 1, Len(common_columns) - 1),
              LAMBDA label :
                 \A i \in 1..Len(raw.cols) : Canonical(raw.cols[i], map) # label)

ProvidesOnce(raw, map) ==
    /\ Len(MissingFields(raw, map)) = 0
    /\ \A i, j \in 1..Len(raw.cols) :
          i # j => Canonical(raw.cols[i], map) # Canonical(raw.cols[j], map)

\* the source cell of row r that the canonical column `label` is read from
SourceCell(raw, map, r, label) ==
    raw.rows[r][CHOOSE i \in 1..Len(raw.cols) :
                    /\ Canonical(raw.cols[i], map) = label
                    /\ \A j \in 1..(i - 1) : Canonical(raw.cols[j], map) # label]

\* row `row` of the merged table is source row r of raw: text fields as they
\* were, metric fields coerced and filled
SameRow(row, raw, map, r) ==
    /\ \A label \in {"Name", "Designation"} :
          Cell(data, row, label) = SourceCell(raw, map, r, label)
    /\ \A j \in 1..Len(numeric_cols) :
          Cell(data, row, numeric_cols[j])
             = fillna(to_numeric(SourceCell(raw, map, r, numeric_cols[j])))

MetricCells ==
    {Cell(data, data.rows[r], numeric_cols[j]) :
        r \in 1..Len(data.rows), j \in 1..Len(numeric_cols)}

\* C4 as claimed: after cleaning, every cell of a metric column is a
\* non-negative finite number.
C4_NonNegativeFinite ==
    data # None => \A c \in MetricCells : c.k = "num" /\ c.n >= 0

\* C4 as amended: after cleaning, every cell of a metric column is a number,
\* never a string and never the missing-value marker; it is negative or
\* infinite where the source cell reads so.
C4_AlwaysNumber ==
    data # None => \A c \in MetricCells : c.k \in {"num", "inf"}

\* a merged table in which N/A became 0 and which holds -3 and inf
C4_Witness ==
    /\ data # None
    /\ \E r \in 1..Len(RawEce.rows) : \E j \in 1..Len(numeric_cols) :
          /\ SourceCell(RawEce, ece_rename_map, r, numeric_cols[j])
                = Str(<<"N", "/", "A">>)
          /\ Cell(data, data.rows[r], numeric_cols[j]) = Num(0)
    /\ Num(-3) \in MetricCells
    /\ Inf(1) \in MetricCells

ErrorWords ==
    IF \E i \in 1..Len(msgs) : msgs[i].kind = "error"
    THEN msgs[CHOOSE i \in 1..Len(msgs) : msgs[i].kind = "error"].words
    ELSE <<>>

Says(word) == \E i \in 1..Len(ErrorWords) : ErrorWords[i] = word

\* the fields the department that is selected first lacks (ECE's before CSE's)
FirstMissing ==
    IF Len(MissingFields(RawEce, ece_rename_map)) > 0
    THEN [dept |-> "ECE", fields |-> MissingFields(RawEce, ece_rename_map)]
    ELSE [dept |-> "CSE", fields |-> MissingFields(RawCse, cse_rename_map)]

\* C6 as claimed: when a department's table lacks a canonical column, the
\* call aborts with an error that names the department and the missing field,
\* the result is None and no view is rendered.
C6_NamesDepartmentAndField ==
    (invoked # "no" /\ Len(FirstMissing.fields) > 0) =>
        /\ data = None /\ view = "none"
        /\ \A i \in 1..Len(FirstMissing.fields) : Says(FirstMissing.fields[i])
        /\ Says(FirstMissing.dept)

\* C6 as amended: the error names the missing field (the fields of the ECE
\* table when it lacks any, otherwise those of the CSE table) and no
\* department; the result is None and no view is rendered.
C6_NamesFieldOnly ==
    (invoked # "no" /\ Len(FirstMissing.fields) > 0) =>
        /\ data = None /\ view = "none"
        /\ \A i \in 1..Len(FirstMissing.fields) : Says(FirstMissing.fields[i])
        /\ ~Says("ECE") /\ ~Says("CSE")

\* a pass in which only the CSE table lacks a column
C6_Witness ==
    /\ invoked # "no"
    /\ FirstMissing.dept = "CSE" /\ FirstMissing.fields = <<"Patents">>
    /\ Len(RawCse.rows) > 0
    /\ data = None

\* C8: every merged row from the ECE file is tagged ECE and every merged row
\* from the CSE file is tagged CSE, whatever Department column the source had.
C8_DepartmentTag ==
    data # None =>
        \A r \in 1..Len(data.rows) :
            Cell(data, data.rows[r], "Department")
               = IF r <= Len(RawEce.rows) THEN Str(ECE) ELSE Str(CSE)

\* a merged table whose ECE source came with a Department column of its own
C8_Witness ==
    /\ data # None
    /\ Len(RawEce.rows) > 0 /\ Len(RawCse.rows) > 0
    /\ \E i \in 1..Len(RawEce.cols) :
          RawEce.cols[i] = "Department" /\ RawEce.rows[1][i] # Str(ECE)

\* C9: cleaning a cleaned table again (coercion, then fill) changes no cell.
C9_CleanIdempotent ==
    data # None =>
        /\ CleanNumeric(data).ok
        /\ CleanNumeric(data).df = data

\* a merged table whose source held text, blank, negative and missing cells
C9_Witness ==
    /\ data # None
    /\ Len(RawCse.rows) > 0
    /\ \A c \in {Str(<<"N", "/", "A">>), Str(<<>>), Str(<<"-", "3">>), NaN, Num(4)} :
          \E i \in 1..Len(RawCse.cols) : RawCse.rows[1][i] = c
    /\ CleanNumeric(data).df = data

====
